---------------------------- MODULE Spec2Model ----------------------------
(***************************************************************************)
(* Model of amber_to_sigen.py: the slot-series compiler, the override      *)
(* engine and the zero gate of main().                                     *)
(*                                                                         *)
(* Conventions of the model                                                *)
(*   - an instant (an aware datetime) is an integer number of minutes      *)
(*     since 00:00 UTC of day 0; the zone is a fixed offset TzOffset, so   *)
(*     the wall clock of instant t is t + TzOffset;                        *)
(*   - a string is a tuple of one-character strings, so that the label     *)
(*     functions (strip, endswith, slicing, split, int, format) are        *)
(*     computed as the code computes them;                                 *)
(*   - a float price is an integer number of thousandths of a cent;        *)
(*     round(x, 2) yields a multiple of 10;                                *)
(*   - an Optional value is <<>> (None) or <<v>>.                          *)
(***************************************************************************)
EXTENDS Integers, Sequences, FiniteSets, TLC

\* ------------------------------------------------------------------------
\* Bounds of the model
\* ------------------------------------------------------------------------

\* iterations allowed to the window loop (the code's loop needs 1440/step)
MaxLoop == 300

\* the slot shifts of the model: -MaxShift .. MaxShift
MaxShift == 1

\* the longest list of rows given to the indexers on their own
MaxRows == 3

\* the longest series given to rotate_series_to_midnight on its own
MaxSeries == 4

\* ------------------------------------------------------------------------
\* Python values
\* ------------------------------------------------------------------------

None == <<>>

Some(v) == <<v>>

IsNone(o) == o = <<>>

Val(o) == o[1]

Abs(x) == IF x < 0 THEN -x ELSE x

\* ------------------------------------------------------------------------
\* Strings as character tuples
\* ------------------------------------------------------------------------

DigitChars == <<"0", "1", "2", "3", "4", "5", "6", "7", "8", "9">>

IsDigit(c) == \E d \in 1..10 : DigitChars[d] = c

DigitVal(c) == (CHOOSE d \in 1..10 : DigitChars[d] = c) - 1

RECURSIVE DecDigits(_)
\* str(n) for n >= 0
DecDigits(n) ==
    IF n < 10 THEN <<DigitChars[n + 1]>>
    ELSE Append(DecDigits(n \div 10), DigitChars[(n % 10) + 1])

\* f"{n:02d}": width 2, zero padded, the sign counted in the width
Format02d(n) ==
    IF n < 0 THEN <<"-">> \o DecDigits(-n)
    ELSE IF n < 10 THEN <<"0">> \o DecDigits(n)
    ELSE DecDigits(n)

RECURSIVE DigitsValue(_)
DigitsValue(s) ==
    IF Len(s) = 0 THEN 0
    ELSE 10 * DigitsValue(SubSeq(s, 1, Len(s) - 1)) + DigitVal(s[Len(s)])

AllDigits(s) == Len(s) > 0 /\ \A i \in 1..Len(s) : IsDigit(s[i])

\* int(s): an optional sign and decimal digits; None stands for ValueError
ParseInt(s) ==
    IF Len(s) > 0 /\ s[1] \in {"-", "+"}
    THEN LET d == Tail(s)
         IN  IF AllDigits(d)
             THEN Some(IF s[1] = "-" THEN -DigitsValue(d) ELSE DigitsValue(d))
             ELSE None
    ELSE IF AllDigits(s) THEN Some(DigitsValue(s)) ELSE None

EndsWith(s, suf) ==
    /\ Len(s) >= Len(suf)
    /\ SubSeq(s, Len(s) - Len(suf) + 1, Len(s)) = suf

StartsWith(s, pre) ==
    /\ Len(s) >= Len(pre)
    /\ SubSeq(s, 1, Len(pre)) = pre

\* index of the first occurrence of character c in s, 0 when absent
RECURSIVE FindFrom(_, _, _)
FindFrom(s, c, i) ==
    IF i > Len(s) THEN 0
    ELSE IF s[i] = c THEN i
    ELSE FindFrom(s, c, i + 1)

\* s.split(c, 1): one or two parts
Split1(s, c) ==
    LET k == FindFrom(s, c, 1)
    IN  IF k = 0 THEN <<s>>
        ELSE <<SubSeq(s, 1, k - 1), SubSeq(s, k + 1, Len(s))>>

RECURSIVE SplitAll(_, _)
\* s.split(c): every part
SplitAll(s, c) ==
    LET k == FindFrom(s, c, 1)
    IN  IF k = 0 THEN <<s>>
        ELSE <<SubSeq(s, 1, k - 1)>> \o SplitAll(SubSeq(s, k + 1, Len(s)), c)

\* s.strip().replace(" ", ""): the alphabet's only whitespace is the space
StripSpaces(s) == SelectSeq(s, LAMBDA c : c # " ")

\* ------------------------------------------------------------------------
\* Label helpers
\* ------------------------------------------------------------------------

Hyphen == <<"-">>

Colon == <<":">>

End0000 == <<"-", "0", "0", ":", "0", "0">>

End2400 == <<"-", "2", "4", ":", "0", "0">>

Midnight == <<"0", "0", ":", "0", "0">>

TwentyFour == <<"2", "4", ":", "0", "0">>

\* minutes of the day of a wall-clock minute count
MinuteOfDay(w) == w % 1440

DateOf(w) == w \div 1440

\* strftime("%H:%M") of a wall-clock minute count
HHMM(w) == Format02d(MinuteOfDay(w) \div 60) \o Colon \o Format02d(MinuteOfDay(w) % 60)

\* the zero-padding step of _norm_label; None stands for the except branch
NormPad(s) ==
    LET parts == Split1(s, "-")
    IN  IF Len(parts) # 2 THEN None
        ELSE LET a  == SplitAll(parts[1], ":")
                 b  == SplitAll(parts[2], ":")
             IN  IF Len(a) # 2 \/ Len(b) # 2 THEN None
                 ELSE LET ah == ParseInt(a[1])
                          am == ParseInt(a[2])
                          bh == ParseInt(b[1])
                          bm == ParseInt(b[2])
                      IN  IF IsNone(ah) \/ IsNone(am) \/ IsNone(bh) \/ IsNone(bm)
                          THEN None
                          ELSE Some(Format02d(Val(ah)) \o Colon \o Format02d(Val(am))
                                    \o Hyphen
                                    \o Format02d(Val(bh)) \o Colon \o Format02d(Val(bm)))

\* s[:-5] + "-24:00" when s ends with "-00:00"
MapMidnightEnd(s) ==
    IF EndsWith(s, End0000)
    THEN SubSeq(s, 1, Len(s) - 5) \o End2400
    ELSE s

_norm_label(label) ==
    LET s1 == StripSpaces(label)
        s2 == MapMidnightEnd(s1)
        p  == NormPad(s2)
    IN  IF IsNone(p) THEN s2 ELSE Val(p)

\* "HH:MM-HH:MM" of two wall-clock minute counts, the end taken as given
RawLabel(w0, w1) == HHMM(w0) \o Hyphen \o HHMM(w1)

\* the start part of a normalized label: _norm_label(tr).split("-", 1)[0]
NormStart(label) == Split1(_norm_label(label), "-")[1]

_label_from_range(start_w, end_w) ==
    LET start_s == HHMM(start_w)
        end_s   == HHMM(end_w)
    IN  IF end_s = Midnight /\ DateOf(end_w) # DateOf(start_w)
        THEN start_s \o Hyphen \o TwentyFour
        ELSE start_s \o Hyphen \o end_s

\* (hh * 60 + mm) // 30 with a 24:00 start clamped to 23:30
HalfHourOf(hh, mm) ==
    IF IsNone(hh) \/ IsNone(mm) THEN None
    ELSE IF Val(hh) = 24 /\ Val(mm) = 0 THEN Some((23 * 60 + 30) \div 30)
    ELSE Some((Val(hh) * 60 + Val(mm)) \div 30)

\* hh, mm = [int(x) for x in start.split(":")]
HalfHourOfParts(parts) ==
    IF Len(parts) # 2 THEN None
    ELSE HalfHourOf(ParseInt(parts[1]), ParseInt(parts[2]))

\* None stands for the except branch (a start that is not two integers)
_half_hour_index_from_label(label) ==
    HalfHourOfParts(SplitAll(NormStart(label), ":"))

\* ------------------------------------------------------------------------
\* Prices and provider rows
\* ------------------------------------------------------------------------

\* round(x, 2) of a price in thousandths (inputs are kept off the ties)
Round2(v) ==
    IF v >= 0 THEN ((v + 5) \div 10) * 10
    ELSE -((((-v) + 5) \div 10) * 10)

\* an ISO-8601 field of a row: absent, unparseable text, or an instant
Absent == <<>>

Unparseable == <<"bad", 0>>

Iso(t) == <<"iso", t>>

\* parse_iso_utc: None stands for the exception
parse_iso_utc(field) ==
    IF field # Absent /\ field[1] = "iso" THEN Some(field[2]) ELSE None

Row(type, st, en, per, spot, adv) ==
    [type |-> type, startTime |-> st, endTime |-> en,
     perKwh |-> per, spotPerKwh |-> spot, advancedPrice |-> adv]

\* ------------------------------------------------------------------------
\* Slot building and indexing (instants are UTC minutes)
\* ------------------------------------------------------------------------

\* ts.replace(second=0, microsecond=0, minute=(ts.minute // step) * step)
floor_to_step(ts, step_min) ==
    (ts - (ts % 60)) + (((ts % 60) \div step_min) * step_min)

\* Loops over a day's slots are unrolled by halves (the first half of the
\* iterations, then the rest, the loop state threaded through), which keeps
\* the evaluation shallow; the iterations and their order are the code's.

RECURSIVE WindowLoop(_, _, _, _, _)
\* at most n iterations of: while t < end: out.append((t, t + step)); t += step
\* the loop state is <<t, out>>
WindowLoop(t, end, step, out, n) ==
    IF n = 0 \/ ~(t < end) THEN <<t, out>>
    ELSE IF n = 1 THEN <<t + step, Append(out, <<t, t + step>>)>>
    ELSE LET a == WindowLoop(t, end, step, out, n \div 2)
         IN  WindowLoop(a[1], end, step, a[2], n - (n \div 2))

\* build_window starting at the instant given, not floored to the step
build_window_unfloored(now_inst, off, step_min, total_minutes) ==
    WindowLoop(now_inst, now_inst + total_minutes, step_min, <<>>, MaxLoop)[2]

build_window(now_inst, off, step_min, total_minutes) ==
    LET start_local == floor_to_step(now_inst + off, step_min)
        start_utc   == start_local - off
    IN  WindowLoop(start_utc, start_utc + total_minutes, step_min, <<>>, MaxLoop)[2]

\* m.setdefault(t, row): the first row written under a key stays
DictPutIfAbsent(m, k, v) ==
    [x \in (DOMAIN m) \cup {k} |-> IF x \in DOMAIN m THEN m[x] ELSE v]

\* m[t] = row on a dict modelled as a function
DictPut(m, k, v) == [x \in (DOMAIN m) \cup {k} |-> IF x = k THEN v ELSE m[x]]

DictGet(m, k) == IF k \in DOMAIN m THEN Some(m[k]) ELSE None

EmptyDict == [x \in {} |-> 0]

RECURSIVE IndexLoop(_, _, _, _, _)
\* the loop of index_prices_by_start_utc / index_prices_by_end_utc
IndexLoop(amber_rows, i, step_min, useEnd, m) ==
    IF i > Len(amber_rows) THEN m
    ELSE LET row   == amber_rows[i]
             field == IF useEnd THEN row.endTime ELSE row.startTime
             t     == parse_iso_utc(field)
         IN  IF field = Absent \/ IsNone(t)
             THEN IndexLoop(amber_rows, i + 1, step_min, useEnd, m)
             ELSE IndexLoop(amber_rows, i + 1, step_min, useEnd,
                            DictPut(m, floor_to_step(Val(t), step_min), row))

index_prices_by_start_utc(amber_rows, step_min) ==
    IndexLoop(amber_rows, 1, step_min, FALSE, EmptyDict)

index_prices_by_end_utc(amber_rows, step_min) ==
    IndexLoop(amber_rows, 1, step_min, TRUE, EmptyDict)

\* a key is a path: <<"perKwh">>, <<"spotPerKwh">>, <<"advancedPrice", variant>>
get_value(row, key) ==
    IF Len(key) = 2
    THEN IF IsNone(row.advancedPrice) THEN None
         ELSE Val(row.advancedPrice)[key[2]]
    ELSE IF key[1] = "perKwh" THEN row.perKwh
    ELSE IF key[1] = "spotPerKwh" THEN row.spotPerKwh
    ELSE None

IndexFor(amber_rows, step_min, align) ==
    IF align = "end" THEN index_prices_by_end_utc(amber_rows, step_min)
    ELSE index_prices_by_start_utc(amber_rows, step_min)

SetMax(S) == CHOOSE x \in S : \A y \in S : y <= x

last_known_before(amber_rows, key, step_min, align, now_inst) ==
    LET index     == IndexFor(amber_rows, step_min, align)
        prev_keys == {t \in DOMAIN index : t < now_inst}
    IN  IF prev_keys = {} THEN None
        ELSE get_value(index[SetMax(prev_keys)], key)

\* ------------------------------------------------------------------------
\* Series building, rotation, labels (an entry is <<label, price>>)
\* ------------------------------------------------------------------------

\* SeriesStep with the carried value never updated: a slot with a value shows
\* it, the slots after it fall back to the seed
SeriesStepWithoutCarry(slots_utc, i, off, by_key, key, align, st) ==
    LET t0_utc == slots_utc[i][1]
        t1_utc == slots_utc[i][2]
        anchor == IF align = "start" THEN t0_utc ELSE t1_utc
        row    == DictGet(by_key, anchor)
        val    == IF IsNone(row) THEN None ELSE get_value(Val(row), key)
        last   == IF IsNone(val) THEN st[1] ELSE Val(val)
    IN  <<st[1], Append(st[2], <<RawLabel(t0_utc + off, t1_utc + off), Round2(last)>>)>>

\* SeriesStep showing 0.0 in a slot that has no value, instead of the carried
\* value
SeriesStepZeroWithoutValue(slots_utc, i, off, by_key, key, align, st) ==
    LET t0_utc == slots_utc[i][1]
        t1_utc == slots_utc[i][2]
        anchor == IF align = "start" THEN t0_utc ELSE t1_utc
        row    == DictGet(by_key, anchor)
        val    == IF IsNone(row) THEN None ELSE get_value(Val(row), key)
        last   == IF IsNone(val) THEN st[1] ELSE Val(val)
    IN  <<last, Append(st[2], <<RawLabel(t0_utc + off, t1_utc + off),
                                IF IsNone(val) THEN 0 ELSE Round2(last)>>)>>

\* one iteration of the for loop of build_series_for_window on slot i;
\* the loop state is <<last, out>>
SeriesStep(slots_utc, i, off, by_key, key, align, st) ==
    LET t0_utc == slots_utc[i][1]
        t1_utc == slots_utc[i][2]
        anchor == IF align = "start" THEN t0_utc ELSE t1_utc
        row    == DictGet(by_key, anchor)
        val    == IF IsNone(row) THEN None ELSE get_value(Val(row), key)
        last   == IF IsNone(val) THEN st[1] ELSE Val(val)
    IN  <<last, Append(st[2], <<RawLabel(t0_utc + off, t1_utc + off), Round2(last)>>)>>

RECURSIVE SeriesLoop(_, _, _, _, _, _, _)
\* at most n iterations of the for loop, in order; the next slot is the one
\* after those already appended to out
SeriesLoop(slots_utc, off, by_key, key, align, st, n) ==
    IF n = 0 \/ Len(st[2]) >= Len(slots_utc) THEN st
    ELSE IF n = 1
         THEN SeriesStep(slots_utc, Len(st[2]) + 1, off, by_key, key, align, st)
    ELSE LET a == SeriesLoop(slots_utc, off, by_key, key, align, st, n \div 2)
         IN  SeriesLoop(slots_utc, off, by_key, key, align, a, n - (n \div 2))

\* build_series_for_window with initial_last ignored (last = 0.0)
build_series_unseeded(slots_utc, off, amber_rows, key, step_min, align, initial_last) ==
    SeriesLoop(slots_utc, off, IndexFor(amber_rows, step_min, align), key, align,
               <<0, <<>> >>, Len(slots_utc))[2]

build_series_for_window(slots_utc, off, amber_rows, key, step_min, align, initial_last) ==
    SeriesLoop(slots_utc, off, IndexFor(amber_rows, step_min, align), key, align,
               <<IF IsNone(initial_last) THEN 0 ELSE Val(initial_last), <<>> >>,
               Len(slots_utc))[2]

MidnightPrefix == <<"0", "0", ":", "0", "0", "-">>

RECURSIVE FirstTrue(_, _, _)
\* the first index in lo..hi at which hits is TRUE, 0 when there is none
FirstTrue(hits, lo, hi) ==
    IF lo > hi THEN 0
    ELSE IF lo = hi THEN (IF hits[lo] THEN lo ELSE 0)
    ELSE IF \E i \in lo..((lo + hi) \div 2) : hits[i]
         THEN FirstTrue(hits, lo, (lo + hi) \div 2)
         ELSE FirstTrue(hits, ((lo + hi) \div 2) + 1, hi)

\* next((i for i, e in enumerate(series) if cond(e)), None) where hits[i] is
\* cond of entry i: 1-based, 0 for None
FirstHit(hits) == FirstTrue(hits, 1, Len(hits))

\* series[idx00:] + series[:idx00], idx00 1-based, 0 for None
RotateAt(series, idx00) ==
    IF idx00 = 0 THEN series
    ELSE SubSeq(series, idx00, Len(series)) \o SubSeq(series, 1, idx00 - 1)

\* rotate_series_to_midnight taking the last entry labelled from midnight
rotate_series_to_last_midnight(series) ==
    LET at == {i \in 1..Len(series) : StartsWith(series[i][1], MidnightPrefix)}
    IN  RotateAt(series, IF at = {} THEN 0 ELSE CHOOSE i \in at : \A j \in at : j <= i)

rotate_series_to_midnight(series) ==
    RotateAt(series,
             FirstHit([i \in 1..Len(series) |-> StartsWith(series[i][1], MidnightPrefix)]))

\* the label canonicalize_series_to_day gives entry i (0-based)
CanonicalLabel(i, step_min) ==
    LET start_min == i * step_min
        end_min   == (i + 1) * step_min
        s_lbl     == Format02d(start_min \div 60) \o Colon \o Format02d(start_min % 60)
        e_lbl     == IF end_min = 1440 THEN TwentyFour
                     ELSE Format02d(end_min \div 60) \o Colon \o Format02d(end_min % 60)
    IN  s_lbl \o Hyphen \o e_lbl

\* canonicalize_series_to_day with the interim labels kept
canonicalize_keeping_labels(series, step_min) == series

canonicalize_series_to_day(series, step_min) ==
    [i \in 1..Len(series) |-> <<CanonicalLabel(i - 1, step_min), series[i][2]>>]

\* deque(series).rotate(slots): entry i moves to (i + slots) mod len
shift_series(series, n) ==
    IF n = 0 \/ Len(series) = 0 THEN series
    ELSE [j \in 1..Len(series) |-> series[((j - 1 - n) % Len(series)) + 1]]

\* the price at 1-based index i, None for index 0
PriceAt(series, i) == IF i = 0 THEN None ELSE Some(series[i][2])

\* _lookup_price_by_label without its second pass
LookupByStartSkipped(series, want_start) == None

\* 2) the start-time prefix fallback
LookupByStart(series, want_start) ==
    PriceAt(series,
            FirstHit([i \in 1..Len(series) |-> NormStart(series[i][1]) = want_start]))

\* the first pass found index exact (0: nothing), else the second pass
ExactOrByStart(series, want, exact) ==
    IF exact # 0 THEN PriceAt(series, exact)
    ELSE LookupByStart(series, Split1(want, "-")[1])

\* 1) the exact normalized match, then 2)
LookupNormalized(series, want) ==
    ExactOrByStart(series, want,
                   FirstHit([i \in 1..Len(series) |-> _norm_label(series[i][1]) = want]))

_lookup_price_by_label(series, label) == LookupNormalized(series, _norm_label(label))

\* the start of a normalized label
StartOf(tr) == Split1(tr, "-")[1]

\* the condition of the override's target search on one normalized label:
\* it equals the wanted one, or their starts are equal
TargetMatches(tr, want, want_start) == tr = want \/ StartOf(tr) = want_start

TargetIndexOf(series, want) ==
    FirstHit([i \in 1..Len(series) |->
                 TargetMatches(_norm_label(series[i][1]), want, StartOf(want))])

\* the target search of the override: next((i for i, (tr, _) in enumerate(series)
\* if ...), None), 1-based, 0 for None
TargetIndex(series, target_label) == TargetIndexOf(series, _norm_label(target_label))

\* ------------------------------------------------------------------------
\* Override resolution (the closures of main)
\* ------------------------------------------------------------------------

\* rank_type with the forecast rows ranked before the current ones
rank_type_forecast_first(t) ==
    IF t = "ForecastInterval" THEN 0
    ELSE IF t = "CurrentInterval" THEN 1
    ELSE 2

rank_type(t) ==
    IF t = "CurrentInterval" THEN 0
    ELSE IF t = "ForecastInterval" THEN 1
    ELSE 2

\* one billion: the distance _dist gives a row whose start does not parse
FarAway == 1000000000

\* _dist: seconds between the row's start and the active slot's start
Dist(row, active_start) ==
    LET st == parse_iso_utc(row.startTime)
    IN  IF IsNone(st) THEN FarAway ELSE Abs(Val(st) - active_start) * 60

SortKey(row, active_start) == <<rank_type(row.type), Dist(row, active_start)>>

\* tuple comparison of two sort keys
KeyLess(a, b) == a[1] < b[1] \/ (a[1] = b[1] /\ a[2] < b[2])

RECURSIVE InsertSorted(_, _, _)
\* r placed after every element whose key is not greater (a stable insertion)
InsertSorted(sorted, r, active_start) ==
    IF Len(sorted) = 0 THEN <<r>>
    ELSE IF KeyLess(SortKey(r, active_start), SortKey(Head(sorted), active_start))
         THEN <<r>> \o sorted
         ELSE <<Head(sorted)>> \o InsertSorted(Tail(sorted), r, active_start)

RECURSIVE SortTrip(_, _)
\* sorted(trip, key=lambda r: (rank_type(r.get("type", "")), _dist(r)))
SortTrip(rows_in, active_start) ==
    IF Len(rows_in) = 0 THEN <<>>
    ELSE InsertSorted(SortTrip(SubSeq(rows_in, 1, Len(rows_in) - 1), active_start),
                      rows_in[Len(rows_in)], active_start)

\* chosen = trip_sorted[0] if trip_sorted else None
ChosenRow(sample, active_start) ==
    LET trip_sorted == SortTrip(sample, active_start)
    IN  IF Len(trip_sorted) = 0 THEN None ELSE Some(trip_sorted[1])

pick_buy(row, advanced_price) ==
    IF ~IsNone(advanced_price) /\ ~IsNone(row.advancedPrice)
       /\ ~IsNone(Val(row.advancedPrice)[Val(advanced_price)])
    THEN Val(row.advancedPrice)[Val(advanced_price)]
    ELSE row.perKwh

pick_sell(row) == row.spotPerKwh

\* <<st_l, en_l, lbl>> as wall-clock minute counts, or None (the except branch)
local_start_end(row, off) ==
    LET st == parse_iso_utc(row.startTime)
        en == parse_iso_utc(row.endTime)
    IN  IF IsNone(st) \/ IsNone(en) THEN None
        ELSE Some(<<Val(st) + off, Val(en) + off,
                    _label_from_range(Val(st) + off, Val(en) + off)>>)

\* the target label taken as the enclosing half hour at every step
TargetLabelAlwaysHalfHour(se, step_min) ==
    LET slot_start == floor_to_step(se[1], 30)
    IN  _label_from_range(slot_start, slot_start + 30)

\* the label the override targets, from the chosen row's local start and end
TargetLabel(se, step_min) ==
    IF step_min = 30
    THEN LET slot_start == floor_to_step(se[1], 30)
         IN  _label_from_range(slot_start, slot_start + 30)
    ELSE se[3]

\* the pending override of a chosen row whose start and end are se
PendingFrom(ch, se, step_min, advanced_price) ==
    IF IsNone(se) THEN None
    ELSE Some(<<TargetLabel(Val(se), step_min),
                pick_buy(ch, advanced_price), pick_sell(ch)>>)

PendingOfChosen(ch, off, step_min, advanced_price) ==
    PendingFrom(ch, local_start_end(ch, off), step_min, advanced_price)

\* the /prices/current block passing over the rows whose start or end does
\* not parse and taking the best ranked of the others
PendingOverrideOfBestSound(sample, active_start, off, step_min, advanced_price) ==
    IF IsNone(sample) \/ Len(Val(sample)) = 0 THEN None
    ELSE LET sound == SelectSeq(SortTrip(Val(sample), active_start),
                                LAMBDA r : ~IsNone(local_start_end(r, off)))
         IN  IF Len(sound) = 0 THEN None
             ELSE PendingOfChosen(sound[1], off, step_min, advanced_price)

\* the /prices/current block taking a missing sample for a reading of the
\* active slot without prices
PendingOverrideOfMissingSample(sample, active_start, off, step_min, advanced_price) ==
    IF IsNone(sample) \/ Len(Val(sample)) = 0
    THEN Some(<<_label_from_range(active_start + off, active_start + off + step_min),
                None, None>>)
    ELSE PendingOfChosen(Val(ChosenRow(Val(sample), active_start)), off, step_min,
                         advanced_price)

\* pending_override after the /prices/current block: None, or
\* <<target_label, chosen_buy, chosen_sell>>
PendingOverride(sample, active_start, off, step_min, advanced_price) ==
    IF IsNone(sample) \/ Len(Val(sample)) = 0 THEN None
    ELSE PendingOfChosen(Val(ChosenRow(Val(sample), active_start)), off, step_min,
                         advanced_price)

\* the index fallback, taken when the label search found nothing (idx = 0):
\* for step 30 the half-hour index of the label, when it lies in the series
FallbackIndex(fb, len) ==
    IF IsNone(fb) \/ ~(0 <= Val(fb) /\ Val(fb) < len) THEN 0 ELSE Val(fb) + 1

\* the index fallback landing on the first entry when the search found nothing
IndexOrFirstEntry(idx, series, target_label, step_min) ==
    IF idx # 0 THEN idx ELSE IF Len(series) > 0 THEN 1 ELSE 0

IndexOrFallback(idx, series, target_label, step_min) ==
    IF idx # 0 THEN idx
    ELSE IF step_min = 30
         THEN FallbackIndex(_half_hour_index_from_label(target_label), Len(series))
         ELSE 0

\* the index the override patches in a series (1-based), 0 when none
PatchIndex(series, target_label, step_min) ==
    IndexOrFallback(TargetIndex(series, target_label), series, target_label, step_min)

\* the BUY block writing chosen_buy as it came, without round(..., 2)
BuyPatchAtUnrounded(series, idx, chosen_buy) ==
    IF idx = 0 \/ IsNone(chosen_buy) \/ Val(chosen_buy) = 0 THEN series
    ELSE [series EXCEPT ![idx] = <<series[idx][1], Val(chosen_buy)>>]

\* the BUY block skipping a missing value only, as the SELL block does
BuyPatchAtZeroWritten(series, idx, chosen_buy) ==
    IF idx = 0 \/ IsNone(chosen_buy) THEN series
    ELSE [series EXCEPT ![idx] = <<series[idx][1], Round2(Val(chosen_buy))>>]

\* the BUY block at index idx: zero or missing is skipped
BuyPatchAt(series, idx, chosen_buy) ==
    IF idx = 0 \/ IsNone(chosen_buy) \/ Val(chosen_buy) = 0 THEN series
    ELSE [series EXCEPT ![idx] = <<series[idx][1], Round2(Val(chosen_buy))>>]

\* the tags the BUY block appends to ZERO_EVENTS_BUY
BuyEventsAt(series, idx, chosen_buy) ==
    IF idx # 0 /\ (IsNone(chosen_buy) \/ Val(chosen_buy) = 0)
    THEN << <<"current", series[idx][1]>> >>
    ELSE <<>>

\* the SELL block writing the value into the target entry and every entry
\* after it
SellPatchFromIndex(series, idx, chosen_sell) ==
    IF idx = 0 \/ IsNone(chosen_sell) THEN series
    ELSE [i \in 1..Len(series) |->
             IF i >= idx THEN <<series[i][1], Round2(Val(chosen_sell))>>
             ELSE series[i]]

\* the SELL block taking 0.0 for a sentinel, as the BUY block does
SellPatchAtZeroSkipped(series, idx, chosen_sell) ==
    IF idx = 0 \/ IsNone(chosen_sell) \/ Val(chosen_sell) = 0 THEN series
    ELSE [series EXCEPT ![idx] = <<series[idx][1], Round2(Val(chosen_sell))>>]

\* the SELL block at index idx: only a missing value is skipped
SellPatchAt(series, idx, chosen_sell) ==
    IF idx = 0 \/ IsNone(chosen_sell) THEN series
    ELSE [series EXCEPT ![idx] = <<series[idx][1], Round2(Val(chosen_sell))>>]

\* a zero scan that stops at the first 0.0 entry it tags
ZeroTagsFirstOnly(kind, series) ==
    LET zeros == SelectSeq(series, LAMBDA e : e[2] = 0)
    IN  [i \in 1..(IF Len(zeros) = 0 THEN 0 ELSE 1) |-> <<kind, zeros[i][1]>>]

\* the tags a zero scan appends: one <<kind, label>> per 0.0 entry, in order
ZeroTags(kind, series) ==
    LET zeros == SelectSeq(series, LAMBDA e : e[2] = 0)
    IN  [i \in 1..Len(zeros) |-> <<kind, zeros[i][1]>>]

\* any(p == 0.0 for _, p in buy_ranges)
HasZero(series) == \E i \in 1..Len(series) : series[i][2] = 0

\* the gate with the zero test left out
SuppressedByDryRunOnly(f, final_has_zero) == f.dry_run

\* the condition of the final safety gate, f the two flags it reads
Suppressed(f, final_has_zero) ==
    f.dry_run \/ (final_has_zero /\ ~f.allow_zero_buy)

\* ------------------------------------------------------------------------
\* Inputs of a run
\* ------------------------------------------------------------------------

\* the standard-time offset of the default zone, Australia/Adelaide (+09:30)
TzOffset == 570

\* total_minutes of build_window
TotalMinutes == 1440

\* the instant whose wall clock is hh:mm on day d
LocalInstant(d, hh, mm) == (d * 1440 + hh * 60 + mm) - TzOffset

\* the instants the clock is read at: mid-morning, and in the day's last slot
NowChoices == {LocalInstant(1, 10, 7), LocalInstant(1, 23, 42)}

Intervals == {5, 30}

Aligns == {"start", "end"}

Shifts == (-MaxShift)..MaxShift

AdvancedChoices == {None, Some("predicted")}

ArgsChoices ==
    [interval : Intervals, align : Aligns, slot_shift : Shifts,
     advanced_price : AdvancedChoices, use_current : BOOLEAN]

\* an advancedPrice object holding only a predicted price
Adv(p) == Some([low |-> None, predicted |-> p, high |-> None])

\* the provider row of the k-th slot after the window start ws
Bulk(ws, step, k, per, spot, adv) ==
    Row("ForecastInterval", Iso(ws + k * step), Iso(ws + (k + 1) * step),
        per, spot, adv)

\* a row ending at the window start (the seed) and the row of the first slot
SeedAndFirstSlot(ws, step) ==
    << Bulk(ws, step, -1, Some(2000), Some(500), Adv(Some(1900))),
       Bulk(ws, step, 0, Some(2150), Some(650), None) >>

\* the /prices responses of the model, for a window starting at ws
RowChoices(ws, step) ==
    { <<>>,
      << Bulk(ws, step, -1, Some(2004), Some(504), Adv(Some(1900))) >>,
      SeedAndFirstSlot(ws, step),
      << Bulk(ws, step, 0, Some(2150), Some(-120), Adv(Some(2100))),
         Bulk(ws, step, 2, Some(0), Some(0), Adv(Some(0))) >> }

\* a 5-minute row of /prices/current starting at instant t
Five(type, t, per, spot, adv) == Row(type, Iso(t), Iso(t + 5), per, spot, adv)

\* the /prices/current samples of the model; f5 is the start of the 5-minute
\* interval holding now. The last three: a current row that starts off the
\* 5-minute grid, a current row whose end does not parse ahead of a sound
\* forecast row, and a current row priced 0.004
TripChoices(f5) ==
    { None,
      Some(<< Five("ActualInterval", f5 - 5, Some(2290), Some(300), None),
              Five("CurrentInterval", f5, Some(2314), Some(0), Adv(Some(2250))),
              Five("ForecastInterval", f5 + 5, Some(2400), Some(800), None) >>),
      Some(<< Five("ForecastInterval", f5 + 5, Some(2400), Some(800), None),
              Five("CurrentInterval", f5, Some(0), Some(700), None) >>),
      Some(<< Five("ActualInterval", f5 - 5, Some(2290), Some(300), None),
              Five("ForecastInterval", f5 + 5, Some(2400), None, None) >>),
      Some(<< Five("CurrentInterval", f5 - 5, Some(2290), Some(300), None),
              Five("CurrentInterval", f5, None, Some(-40), None) >>),
      Some(<< Row("CurrentInterval", Iso(f5 + 2), Iso(f5 + 7), Some(2333),
                  Some(444), None) >>),
      Some(<< Row("CurrentInterval", Iso(f5), Unparseable, Some(2500), Some(600),
                  None),
              Five("ForecastInterval", f5 + 5, Some(2400), Some(800), None) >>),
      Some(<< Five("CurrentInterval", f5, Some(4), Some(250), None) >>) }

\* ------------------------------------------------------------------------
\* The run of main() as a state machine
\* ------------------------------------------------------------------------

VARIABLES
    pc,               \* the position of main
    args,             \* the parsed arguments read before the gate
    flags,            \* args.dry_run and args.allow_zero_buy
    now,              \* the instant of now_local / now_utc
    slots,            \* build_window's slots
    current_label,    \* the label of the active slot
    rows,             \* the /prices rows
    buy_baseline,
    sell_baseline,
    buy_ranges,
    sell_ranges,
    ZERO_EVENTS_BUY,  \* the tags, each <<kind, label>>
    trip,             \* the /prices/current sample
    chosen,           \* the row the override takes
    pending_override,
    posted,           \* whether the POST was issued
    call,             \* the arguments of a helper called on its own
    ret               \* its result

vars ==
    <<pc, args, flags, now, slots, current_label, rows, buy_baseline,
      sell_baseline, buy_ranges, sell_ranges, ZERO_EVENTS_BUY, trip, chosen,
      pending_override, posted, call, ret>>

step_min == args.interval

\* floor_to_step(now_local, step_min) as an instant
WindowStart == floor_to_step(now + TzOffset, step_min) - TzOffset

buy_key ==
    IF IsNone(args.advanced_price) THEN <<"perKwh">>
    ELSE <<"advancedPrice", Val(args.advanced_price)>>

sell_key == <<"spotPerKwh">>

\* dry_run and allow_zero_buy are parsed with the other arguments and read by
\* nothing before the gate; the model fixes them at the step before it
NoFlags == [dry_run |-> FALSE, allow_zero_buy |-> FALSE]

FlagChoices == [dry_run : BOOLEAN, allow_zero_buy : BOOLEAN]

Init ==
    /\ pc = "start"
    /\ args \in ArgsChoices
    /\ flags = NoFlags
    /\ now = 0
    /\ slots = <<>>
    /\ current_label = <<>>
    /\ rows = <<>>
    /\ buy_baseline = None
    /\ sell_baseline = None
    /\ buy_ranges = <<>>
    /\ sell_ranges = <<>>
    /\ ZERO_EVENTS_BUY = <<>>
    /\ trip = None
    /\ chosen = None
    /\ pending_override = None
    /\ posted = FALSE
    /\ call = <<>>
    /\ ret = <<>>

\* lines 448-457: the clock, the window, the active slot's label
ReadClock ==
    /\ pc = "start"
    /\ \E n \in NowChoices :
          /\ now' = n
          /\ slots' = build_window(n, TzOffset, step_min, TotalMinutes)
          /\ current_label' =
                LET active_start_local == floor_to_step(n + TzOffset, step_min)
                IN  _label_from_range(active_start_local,
                                      active_start_local + step_min)
    /\ pc' = "clock"
    /\ UNCHANGED <<args, flags, rows, buy_baseline, sell_baseline, buy_ranges,
                   sell_ranges, ZERO_EVENTS_BUY, trip, chosen, pending_override,
                   posted, call, ret>>

\* lines 459-466: the bulk prices
FetchPrices ==
    /\ pc = "clock"
    /\ rows' \in RowChoices(WindowStart, step_min)
    /\ pc' = "fetched"
    /\ UNCHANGED <<args, flags, now, slots, current_label, buy_baseline,
                   sell_baseline, buy_ranges, sell_ranges, ZERO_EVENTS_BUY, trip,
                   chosen, pending_override, posted, call, ret>>

\* lines 468-479: the baselines and the two series
BuildSeries ==
    /\ pc = "fetched"
    /\ LET bb == last_known_before(rows, buy_key, step_min, args.align, now)
           sb == last_known_before(rows, sell_key, step_min, args.align, now)
       IN  /\ buy_baseline' = bb
           /\ sell_baseline' = sb
           /\ buy_ranges' = build_series_for_window(slots, TzOffset, rows, buy_key,
                                                    step_min, args.align, bb)
           /\ sell_ranges' = build_series_for_window(slots, TzOffset, rows, sell_key,
                                                     step_min, args.align, sb)
    /\ pc' = "built"
    /\ UNCHANGED <<args, flags, now, slots, current_label, rows, ZERO_EVENTS_BUY,
                   trip, chosen, pending_override, posted, call, ret>>

\* lines 481-483
ShiftSeries ==
    /\ pc = "built"
    /\ buy_ranges' = shift_series(buy_ranges, args.slot_shift)
    /\ sell_ranges' = shift_series(sell_ranges, args.slot_shift)
    /\ pc' = "shifted"
    /\ UNCHANGED <<args, flags, now, slots, current_label, rows, buy_baseline,
                   sell_baseline, ZERO_EVENTS_BUY, trip, chosen, pending_override,
                   posted, call, ret>>

\* lines 485-488
ForecastZeroScan ==
    /\ pc = "shifted"
    /\ ZERO_EVENTS_BUY' = ZERO_EVENTS_BUY \o ZeroTags("forecast", buy_ranges)
    /\ pc' = "scanned"
    /\ UNCHANGED <<args, flags, now, slots, current_label, rows, buy_baseline,
                   sell_baseline, buy_ranges, sell_ranges, trip, chosen,
                   pending_override, posted, call, ret>>

\* lines 490-613: the sample, the chosen row, the pending override
ResolveOverride ==
    /\ pc = "scanned"
    /\ IF args.use_current
       THEN \E sample \in TripChoices(floor_to_step(now + TzOffset, 5) - TzOffset) :
               /\ trip' = sample
               /\ chosen' = IF IsNone(sample) \/ Len(Val(sample)) = 0 THEN None
                            ELSE ChosenRow(Val(sample), WindowStart)
               /\ pending_override' =
                     PendingOverride(sample, WindowStart, TzOffset, step_min,
                                     args.advanced_price)
       ELSE UNCHANGED <<trip, chosen, pending_override>>
    /\ pc' = "resolved"
    /\ UNCHANGED <<args, flags, now, slots, current_label, rows, buy_baseline,
                   sell_baseline, buy_ranges, sell_ranges, ZERO_EVENTS_BUY,
                   posted, call, ret>>

\* lines 615-619
RotateCanonicalize ==
    /\ pc = "resolved"
    /\ buy_ranges' = canonicalize_series_to_day(rotate_series_to_midnight(buy_ranges),
                                                step_min)
    /\ sell_ranges' = canonicalize_series_to_day(rotate_series_to_midnight(sell_ranges),
                                                 step_min)
    /\ pc' = "canonical"
    /\ UNCHANGED <<args, flags, now, slots, current_label, rows, buy_baseline,
                   sell_baseline, ZERO_EVENTS_BUY, trip, chosen, pending_override,
                   posted, call, ret>>

\* lines 621-680
ApplyOverride ==
    /\ pc = "canonical"
    /\ IF IsNone(pending_override)
       THEN UNCHANGED <<buy_ranges, sell_ranges, ZERO_EVENTS_BUY>>
       ELSE LET target_label == Val(pending_override)[1]
                chosen_buy   == Val(pending_override)[2]
                chosen_sell  == Val(pending_override)[3]
            IN  /\ \E buy_idx \in {PatchIndex(buy_ranges, target_label, step_min)} :
                      /\ buy_ranges' = BuyPatchAt(buy_ranges, buy_idx, chosen_buy)
                      /\ ZERO_EVENTS_BUY' =
                            ZERO_EVENTS_BUY \o BuyEventsAt(buy_ranges, buy_idx, chosen_buy)
                /\ \E sell_idx \in {PatchIndex(sell_ranges, target_label, step_min)} :
                      sell_ranges' = SellPatchAt(sell_ranges, sell_idx, chosen_sell)
    /\ pc' = "overridden"
    /\ UNCHANGED <<args, flags, now, slots, current_label, rows, buy_baseline,
                   sell_baseline, trip, chosen, pending_override, posted, call, ret>>

\* lines 682-698
PostbuildScan ==
    /\ pc = "overridden"
    /\ ZERO_EVENTS_BUY' = ZERO_EVENTS_BUY \o ZeroTags("postbuild", buy_ranges)
    /\ pc' = "postbuild"
    /\ UNCHANGED <<args, flags, now, slots, current_label, rows, buy_baseline,
                   sell_baseline, buy_ranges, sell_ranges, trip, chosen,
                   pending_override, posted, call, ret>>

\* lines 700-756: the payload is built and ensure_sigen_headers returns
EnsureHeaders ==
    /\ pc = "postbuild"
    /\ flags' \in FlagChoices
    /\ pc' = "headers"
    /\ UNCHANGED <<args, now, slots, current_label, rows, buy_baseline,
                   sell_baseline, buy_ranges, sell_ranges, ZERO_EVENTS_BUY, trip,
                   chosen, pending_override, posted, call, ret>>

\* lines 374-397: ensure_sigen_headers raises (no user, no way to
\* authenticate, a failed password grant); main does not catch it
EnsureHeadersRaises ==
    /\ pc = "postbuild"
    /\ flags' \in FlagChoices
    /\ pc' = "raised"
    /\ UNCHANGED <<args, now, slots, current_label, rows, buy_baseline,
                   sell_baseline, buy_ranges, sell_ranges, ZERO_EVENTS_BUY, trip,
                   chosen, pending_override, posted, call, ret>>

\* lines 759-766: the gate; the run returns or goes on to the POST
Gate ==
    /\ pc = "headers"
    /\ pc' = IF Suppressed(flags, HasZero(buy_ranges)) THEN "returned" ELSE "post"
    /\ UNCHANGED <<args, flags, now, slots, current_label, rows, buy_baseline,
                   sell_baseline, buy_ranges, sell_ranges, ZERO_EVENTS_BUY, trip,
                   chosen, pending_override, posted, call, ret>>

\* lines 768-775: the POST is issued; the response is a success or an error
\* status, which raise_for_status raises
Post ==
    /\ pc = "post"
    /\ posted' = TRUE
    /\ pc' \in {"returned", "raised"}
    /\ UNCHANGED <<args, flags, now, slots, current_label, rows, buy_baseline,
                   sell_baseline, buy_ranges, sell_ranges, ZERO_EVENTS_BUY, trip,
                   chosen, pending_override, call, ret>>

Next ==
    \/ ReadClock
    \/ FetchPrices
    \/ BuildSeries
    \/ ShiftSeries
    \/ ForecastZeroScan
    \/ ResolveOverride
    \/ RotateCanonicalize
    \/ ApplyOverride
    \/ PostbuildScan
    \/ EnsureHeaders
    \/ EnsureHeadersRaises
    \/ Gate
    \/ Post

Spec == Init /\ [][Next]_vars

\* ------------------------------------------------------------------------
\* The label functions called on their own
\* ------------------------------------------------------------------------

\* a day's canonical series, entry i priced 10 * i
DaySeries(step) ==
    canonicalize_series_to_day([i \in 1..(TotalMinutes \div step) |-> <<<<>>, 10 * i>>],
                               step)

\* a window's series with build_series_for_window's interim labels, in window
\* order, entry i priced 10 * i
InterimSeries(now_inst, step) ==
    LET w == build_window(now_inst, TzOffset, step, TotalMinutes)
    IN  [i \in 1..Len(w) |->
            <<RawLabel(w[i][1] + TzOffset, w[i][2] + TzOffset), 10 * i>>]

SeriesChoices ==
    {DaySeries(30), DaySeries(5), InterimSeries(LocalInstant(1, 10, 7), 30)}

\* the starts asked for: the half-hour grid, and three starts off it
StartChoices ==
    {HHMM(30 * k) : k \in 0..47} \cup {HHMM(605), HHMM(607), HHMM(1435)}

\* each start with the end spelled 00:00 and spelled 24:00
LabelChoices ==
    {st \o Hyphen \o e : st \in StartChoices, e \in {Midnight, TwentyFour}}

InitLabels ==
    /\ pc = "call"
    /\ call \in [series : SeriesChoices, label : LabelChoices]
    /\ ret = <<>>
    /\ args \in {a \in ArgsChoices : a.interval = 30 /\ a.align = "start"
                                     /\ a.slot_shift = 0 /\ ~a.use_current
                                     /\ IsNone(a.advanced_price)}
    /\ flags = NoFlags
    /\ now = 0
    /\ slots = <<>>
    /\ current_label = <<>>
    /\ rows = <<>>
    /\ buy_baseline = None
    /\ sell_baseline = None
    /\ buy_ranges = <<>>
    /\ sell_ranges = <<>>
    /\ ZERO_EVENTS_BUY = <<>>
    /\ trip = None
    /\ chosen = None
    /\ pending_override = None
    /\ posted = FALSE

\* _norm_label(label)
NormLabel ==
    /\ pc = "call"
    /\ ret' = _norm_label(call.label)
    /\ pc' = "norm"
    /\ UNCHANGED <<args, flags, now, slots, current_label, rows, buy_baseline,
                   sell_baseline, buy_ranges, sell_ranges, ZERO_EVENTS_BUY, trip,
                   chosen, pending_override, posted, call>>

\* _lookup_price_by_label(series, label)
LookupPrice ==
    /\ pc = "call"
    /\ ret' = _lookup_price_by_label(call.series, call.label)
    /\ pc' = "lookup"
    /\ UNCHANGED <<args, flags, now, slots, current_label, rows, buy_baseline,
                   sell_baseline, buy_ranges, sell_ranges, ZERO_EVENTS_BUY, trip,
                   chosen, pending_override, posted, call>>

\* the override's search of the target label in a series (lines 627-629)
SearchTarget ==
    /\ pc = "call"
    /\ ret' = TargetIndex(call.series, call.label)
    /\ pc' = "target"
    /\ UNCHANGED <<args, flags, now, slots, current_label, rows, buy_baseline,
                   sell_baseline, buy_ranges, sell_ranges, ZERO_EVENTS_BUY, trip,
                   chosen, pending_override, posted, call>>

NextLabels ==
    \/ NormLabel
    \/ LookupPrice
    \/ SearchTarget

SpecLabels == InitLabels /\ [][NextLabels]_vars

\* ------------------------------------------------------------------------
\* index_prices_by_start_utc and index_prices_by_end_utc on their own
\* ------------------------------------------------------------------------

\* the startTime and endTime of a row: on the grid, drifted by two minutes,
\* a later half hour, and rows with an absent or unparsable field
AnchorChoices ==
    { <<Iso(LocalInstant(1, 10, 0)), Iso(LocalInstant(1, 10, 5))>>,
      <<Iso(LocalInstant(1, 10, 2)), Iso(LocalInstant(1, 10, 7))>>,
      <<Iso(LocalInstant(1, 10, 30)), Iso(LocalInstant(1, 11, 0))>>,
      <<Absent, Iso(LocalInstant(1, 10, 5))>>,
      <<Iso(LocalInstant(1, 10, 0)), Unparseable>>,
      <<Unparseable, Absent>> }

\* the rows with the anchors given, the i-th priced i * 0.10 to tell the rows
\* of a list apart
RowsOfAnchors(anchors) ==
    [i \in 1..Len(anchors) |->
        Row("ForecastInterval", anchors[i][1], anchors[i][2], Some(10 * i),
            None, None)]

IndexRowChoices ==
    {RowsOfAnchors(a) : a \in UNION {[1..n -> AnchorChoices] : n \in 0..MaxRows}}

InitIndex ==
    /\ pc = "call"
    /\ rows \in IndexRowChoices
    /\ args \in {a \in ArgsChoices : a.align = "start" /\ a.slot_shift = 0
                                     /\ ~a.use_current /\ IsNone(a.advanced_price)}
    /\ call = <<>>
    /\ ret = <<>>
    /\ flags = NoFlags
    /\ now = 0
    /\ slots = <<>>
    /\ current_label = <<>>
    /\ buy_baseline = None
    /\ sell_baseline = None
    /\ buy_ranges = <<>>
    /\ sell_ranges = <<>>
    /\ ZERO_EVENTS_BUY = <<>>
    /\ trip = None
    /\ chosen = None
    /\ pending_override = None
    /\ posted = FALSE

\* index_prices_by_start_utc(rows, step_min)
IndexByStart ==
    /\ pc = "call"
    /\ ret' = index_prices_by_start_utc(rows, step_min)
    /\ pc' = "by_start"
    /\ UNCHANGED <<args, flags, now, slots, current_label, rows, buy_baseline,
                   sell_baseline, buy_ranges, sell_ranges, ZERO_EVENTS_BUY, trip,
                   chosen, pending_override, posted, call>>

\* index_prices_by_end_utc(rows, step_min)
IndexByEnd ==
    /\ pc = "call"
    /\ ret' = index_prices_by_end_utc(rows, step_min)
    /\ pc' = "by_end"
    /\ UNCHANGED <<args, flags, now, slots, current_label, rows, buy_baseline,
                   sell_baseline, buy_ranges, sell_ranges, ZERO_EVENTS_BUY, trip,
                   chosen, pending_override, posted, call>>

NextIndex ==
    \/ IndexByStart
    \/ IndexByEnd

SpecIndex == InitIndex /\ [][NextIndex]_vars

\* ------------------------------------------------------------------------
\* rotate_series_to_midnight on its own
\* ------------------------------------------------------------------------

\* labels from midnight at either step, a label ending at midnight, and one
\* that does not name midnight
RotateLabelChoices ==
    { CanonicalLabel(0, 30), CanonicalLabel(0, 5),
      RawLabel(23 * 60 + 30, 24 * 60),
      CanonicalLabel(20, 30) }

\* the series with the labels given, the i-th priced i * 0.10 to tell the
\* entries apart
SeriesOfLabels(labels) == [i \in 1..Len(labels) |-> <<labels[i], 10 * i>>]

RotateSeriesChoices ==
    {SeriesOfLabels(l) : l \in UNION {[1..n -> RotateLabelChoices] : n \in 0..MaxSeries}}

InitRotate ==
    /\ pc = "call"
    /\ call \in [series : RotateSeriesChoices]
    /\ ret = <<>>
    /\ args \in {a \in ArgsChoices : a.interval = 30 /\ a.align = "start"
                                     /\ a.slot_shift = 0 /\ ~a.use_current
                                     /\ IsNone(a.advanced_price)}
    /\ flags = NoFlags
    /\ now = 0
    /\ slots = <<>>
    /\ current_label = <<>>
    /\ rows = <<>>
    /\ buy_baseline = None
    /\ sell_baseline = None
    /\ buy_ranges = <<>>
    /\ sell_ranges = <<>>
    /\ ZERO_EVENTS_BUY = <<>>
    /\ trip = None
    /\ chosen = None
    /\ pending_override = None
    /\ posted = FALSE

\* rotate_series_to_midnight(series)
RotateToMidnight ==
    /\ pc = "call"
    /\ ret' = rotate_series_to_midnight(call.series)
    /\ pc' = "rotated"
    /\ UNCHANGED <<args, flags, now, slots, current_label, rows, buy_baseline,
                   sell_baseline, buy_ranges, sell_ranges, ZERO_EVENTS_BUY, trip,
                   chosen, pending_override, posted, call>>

NextRotate == RotateToMidnight

SpecRotate == InitRotate /\ [][NextRotate]_vars

\* ------------------------------------------------------------------------
\* Properties
\* ------------------------------------------------------------------------

\* the positions of main after the override stage: the series are final
FinalPcs == {"overridden", "postbuild", "headers", "post", "returned", "raised"}

\* the minutes an "HH:MM" text names, -1 when it is not two integers
ClockMinutes(t) ==
    LET p == SplitAll(t, ":")
    IN  IF Len(p) # 2 THEN -1
        ELSE IF IsNone(ParseInt(p[1])) \/ IsNone(ParseInt(p[2])) THEN -1
        ELSE Val(ParseInt(p[1])) * 60 + Val(ParseInt(p[2]))

\* the minute a label's range starts at, and the minute it ends at
LabelStart(label) == ClockMinutes(Split1(label, "-")[1])

LabelEnd(label) ==
    LET p == Split1(label, "-")
    IN  IF Len(p) # 2 THEN -1 ELSE ClockMinutes(p[2])

\* entry i is labelled HH:MM-HH:MM with the range [(i-1)*step, i*step), so the
\* labels tile 00:00..24:00 in order and the last end reads 24:00
IsDayPartition(series, step) ==
    /\ Len(series) = 1440 \div step
    /\ \A i \in 1..Len(series) :
          /\ Len(series[i][1]) = 11
          /\ LabelStart(series[i][1]) = (i - 1) * step
          /\ LabelEnd(series[i][1]) = i * step
    /\ Cardinality({series[i][1] : i \in 1..Len(series)}) = Len(series)

\* C1: the buy series and the sell series that leave the override stage (no
\* later step writes them) each have 1440/step entries, entry i labelled with
\* the minute range [(i-1)*step, i*step) as HH:MM-HH:MM, the last end written
\* 24:00; the labels are pairwise distinct and tile the day without gap or
\* overlap.
C1_SeriesPartitionTheDay ==
    pc = "overridden" =>
        /\ IsDayPartition(buy_ranges, step_min)
        /\ IsDayPartition(sell_ranges, step_min)

\* a run at step 5 with a slot shift and an override
C1_Witness ==
    /\ pc = "overridden"
    /\ step_min = 5
    /\ args.slot_shift # 0
    /\ ~IsNone(pending_override)
    /\ Len(buy_ranges) = 288
    /\ buy_ranges[288][1] = <<"2", "3", ":", "5", "5", "-", "2", "4", ":", "0", "0">>

\* a label ending "00:00" with that end written "24:00"
Respelled(label) == SubSeq(label, 1, Len(label) - 5) \o TwentyFour

\* C2: _norm_label gives "HH:MM-00:00" and "HH:MM-24:00" the same result, for
\* every start HH:MM.
C2_MidnightEndNormalizesAs2400 ==
    (pc = "norm" /\ EndsWith(call.label, End0000)) =>
        ret = _norm_label(Respelled(call.label))

NoSlotHasValue(key) ==
    \A i \in 1..Len(slots) :
        LET anchor == IF args.align = "start" THEN slots[i][1] ELSE slots[i][2]
            row    == DictGet(IndexFor(rows, step_min, args.align), anchor)
        IN  IsNone(row) \/ IsNone(get_value(Val(row), key))

\* every entry holds the seed rounded to two decimals, or 0.0 without a seed
ConstantAtSeed(series, seed) ==
    /\ Len(series) = Len(slots)
    /\ \A i \in 1..Len(series) :
          series[i][2] = IF IsNone(seed) THEN 0 ELSE Round2(Val(seed))

\* C4: when no slot of the window finds an indexed row with a value for the
\* key, build_series_for_window returns a series whose every entry is the seed
\* rounded to two decimals, or 0.0 when there is no seed.
C4_NoDataGivesConstantSeries ==
    pc = "built" =>
        /\ NoSlotHasValue(buy_key) => ConstantAtSeed(buy_ranges, buy_baseline)
        /\ NoSlotHasValue(sell_key) => ConstantAtSeed(sell_ranges, sell_baseline)

\* the only row ends at the window start: it seeds 20.04, shown as 20.00
C4_Witness ==
    /\ pc = "built"
    /\ NoSlotHasValue(buy_key)
    /\ buy_baseline = Some(2004)
    /\ Len(buy_ranges) = 288
    /\ buy_ranges[1][2] = 2000
    /\ buy_ranges[288][2] = 2000

\* the rows of the /prices/current sample
TripRows == IF IsNone(trip) THEN <<>> ELSE Val(trip)

\* the time between a row's start and the active slot's start
StartDistance(r) == Abs(Val(parse_iso_utc(r.startTime)) - WindowStart)

\* C5: the row chosen from the sample is a current row when the sample has
\* one, else a forecast row when it has one, whatever the starts; and no row
\* of the chosen row's type starts closer to the active slot's start.
C5_CurrentThenForecastThenClosest ==
    Len(TripRows) > 0 =>
        /\ ~IsNone(chosen)
        /\ \E i \in 1..Len(TripRows) : TripRows[i] = Val(chosen)
        /\ \A i \in 1..Len(TripRows) :
              /\ TripRows[i].type = "CurrentInterval" =>
                    Val(chosen).type = "CurrentInterval"
              /\ TripRows[i].type = "ForecastInterval" =>
                    Val(chosen).type \in {"CurrentInterval", "ForecastInterval"}
              /\ TripRows[i].type = Val(chosen).type =>
                    StartDistance(Val(chosen)) <= StartDistance(TripRows[i])

\* a current row is chosen although an actual row starts closer
C5_Witness ==
    /\ ~IsNone(chosen)
    /\ Val(chosen).type = "CurrentInterval"
    /\ \E i \in 1..Len(TripRows) :
          /\ TripRows[i].type = "ActualInterval"
          /\ StartDistance(TripRows[i]) < StartDistance(Val(chosen))

\* C6: with a 0.0 entry in the final buy series, the POST is issued only when
\* allow_zero_buy is set; and when it is set (and the run is no dry run) the
\* gate lets the run through, so a run that returned has issued the POST.
C6_ZeroGate ==
    HasZero(buy_ranges) =>
        /\ posted => flags.allow_zero_buy
        /\ (pc = "returned" /\ flags.allow_zero_buy /\ ~flags.dry_run) => posted

\* a buy series holding a 0.0 was posted under allow_zero_buy
C6_Witness ==
    /\ posted
    /\ HasZero(buy_ranges)
    /\ flags.allow_zero_buy
    /\ ~flags.dry_run

\* the scenario of C7: step 30, the window starting at local 10:00, the seed
\* 20.00, one row giving 10:00-10:30 the price 21.50 and no other row in the
\* window, no slot shift, no override; the series taken after the override stage
C7_Scenario ==
    /\ pc \in FinalPcs
    /\ step_min = 30
    /\ MinuteOfDay(WindowStart + TzOffset) = 600
    /\ args.slot_shift = 0
    /\ IsNone(args.advanced_price)
    /\ IsNone(pending_override)
    /\ rows = SeedAndFirstSlot(WindowStart, 30)
    /\ buy_baseline = Some(2000)

\* C7 as claimed: in the scenario, 10:00-10:30 is 21.50, every bucket from 10:30
\* to 24:00 is 21.50, and every bucket from 00:00 to 10:00 is 20.00.
C7_BucketsBeforeWindowKeepSeed ==
    C7_Scenario =>
        \A i \in 1..Len(buy_ranges) :
            buy_ranges[i][2] = IF LabelStart(buy_ranges[i][1]) >= 600 THEN 2150
                               ELSE 2000

\* C7 amended: in the scenario, 10:00-10:30 is 21.50, every bucket from 10:30 to
\* 24:00 is 21.50, and every bucket from 00:00 to 10:00 is 21.50 too: those
\* buckets are the window's last slots, after 10:00-10:30 in window order, and
\* the seed 20.00 is in no bucket.
C7_EveryBucketCarriesFirstSlot ==
    C7_Scenario =>
        /\ Len(buy_ranges) = 48
        /\ \A i \in 1..Len(buy_ranges) : buy_ranges[i][2] = 2150

\* the scenario's run returned: 10:00-10:30 and 00:00-00:30 both hold 21.50
C7_Witness ==
    /\ C7_Scenario
    /\ pc = "returned"
    /\ buy_ranges[21] = <<<<"1", "0", ":", "0", "0", "-", "1", "0", ":", "3", "0">>, 2150>>
    /\ buy_ranges[1] = <<<<"0", "0", ":", "0", "0", "-", "0", "0", ":", "3", "0">>, 2150>>

\* the wall-clock minute of the day the chosen row starts at
ChosenStartMinute == MinuteOfDay(Val(parse_iso_utc(Val(chosen).startTime)) + TzOffset)

\* the buy value of the chosen row
ChosenBuy == pick_buy(Val(chosen), args.advanced_price)

\* the chosen row spans an interval (its start and end parse) and gives a buy
\* value other than 0.0
ChosenBuyIsPrice ==
    /\ ~IsNone(chosen)
    /\ ~IsNone(local_start_end(Val(chosen), TzOffset))
    /\ ~IsNone(ChosenBuy)
    /\ Val(ChosenBuy) # 0

\* C8: at step 30, when the chosen row has a non-zero buy value v, the bucket
\* of the final buy series whose half hour holds the row's start is v rounded
\* to two decimals, whatever the slot shift and the forecast value; for a row
\* spanning 10:05-10:10 that bucket is "10:00-10:30".
C8_OverridePatchesEnclosingHalfHour ==
    (pc \in FinalPcs /\ step_min = 30 /\ ChosenBuyIsPrice) =>
        /\ \E i \in 1..Len(buy_ranges) :
              /\ LabelStart(buy_ranges[i][1]) <= ChosenStartMinute
              /\ ChosenStartMinute < LabelEnd(buy_ranges[i][1])
              /\ buy_ranges[i][2] = Round2(Val(ChosenBuy))
        /\ ChosenStartMinute = 605 =>
              \E i \in 1..Len(buy_ranges) :
                  buy_ranges[i] =
                      <<<<"1", "0", ":", "0", "0", "-", "1", "0", ":", "3", "0">>,
                        Round2(Val(ChosenBuy))>>

\* a current row 10:05-10:10 priced 23.14 was chosen under a slot shift, and
\* 10:00-10:30 holds 23.10
C8_Witness ==
    /\ pc = "returned"
    /\ step_min = 30
    /\ args.slot_shift # 0
    /\ ~IsNone(chosen)
    /\ Val(chosen).type = "CurrentInterval"
    /\ Val(chosen).endTime = Iso(LocalInstant(1, 10, 10))
    /\ ChosenStartMinute = 605
    /\ ChosenBuy = Some(2314)
    /\ buy_ranges[21][2] = 2310

\* the chosen row's buy value is absent or 0.0, and the series has the bucket
\* the override targets
ZeroOverridePending ==
    /\ pc = "canonical"
    /\ ~IsNone(pending_override)
    /\ ~IsNone(chosen)
    /\ IsNone(ChosenBuy) \/ Val(ChosenBuy) = 0
    /\ \E i \in 1..Len(buy_ranges) :
          LabelStart(buy_ranges[i][1]) = LabelStart(Val(pending_override)[1])

C10_SuppressedRunNeverRaises ==
    (HasZero(buy_ranges) /\ ~flags.allow_zero_buy) => pc # "raised"

\* the row indexed at the anchor of slot i, None when there is none
SlotRow(i) ==
    DictGet(IndexFor(rows, step_min, args.align),
            IF args.align = "start" THEN slots[i][1] ELSE slots[i][2])

\* the row lacks the configured variant and has a primary price
LacksVariantOnly(row) ==
    /\ IsNone(get_value(row, buy_key))
    /\ ~IsNone(row.perKwh)

\* C11: with an alternative-price variant configured, a slot whose indexed row
\* lacks the variant but has perKwh takes that perKwh (rounded) as its buy
\* value in the series build_series_for_window returns, and pick_buy gives the
\* perKwh of such a chosen row.
C11_VariantFallsBackToPrimary ==
    ~IsNone(args.advanced_price) =>
        /\ pc = "built" =>
              \A i \in 1..Len(slots) :
                  (~IsNone(SlotRow(i)) /\ LacksVariantOnly(Val(SlotRow(i)))) =>
                      buy_ranges[i][2] = Round2(Val(Val(SlotRow(i)).perKwh))
        /\ (pc = "resolved" /\ ~IsNone(chosen) /\ ~IsNone(pending_override)
            /\ LacksVariantOnly(Val(chosen))) =>
              Val(pending_override)[2] = Val(chosen).perKwh

\* the minute of the day the active slot starts at: floor(now_local, step)
ActiveBucketStart == MinuteOfDay(floor_to_step(now + TzOffset, step_min))

\* the minute of the day the bucket holding the chosen row's start begins at
ChosenBucketStart ==
    MinuteOfDay(floor_to_step(Val(parse_iso_utc(Val(chosen).startTime)) + TzOffset,
                              step_min))

\* the override stage changes entry i of the buy or of the sell series
OverrideChanges(i) ==
    \/ buy_ranges'[i] # buy_ranges[i]
    \/ sell_ranges'[i] # sell_ranges[i]

UnshiftedCanonicalBuy ==
    canonicalize_series_to_day(
        rotate_series_to_midnight(
            build_series_for_window(slots, TzOffset, rows, buy_key, step_min,
                                    args.align, buy_baseline)),
        step_min)

\* the prices of series moved n places later, around the end
PricesMovedBy(series, n, moved) ==
    \A i \in 1..Len(series) :
        moved[((i - 1 + n) % Len(series)) + 1][2] = series[i][2]

\* C13: with slot shift N the canonical buy series, before any override, holds
\* at index (i + N) mod length the price the run with shift 0 holds at index i.
C13_ShiftMovesPricesBySlots ==
    pc = "canonical" =>
        /\ Len(buy_ranges) = Len(UnshiftedCanonicalBuy)
        /\ PricesMovedBy(UnshiftedCanonicalBuy, args.slot_shift, buy_ranges)

\* the near-real-time fetch returned no rows (None or an empty list)
SampleIsEmpty == IsNone(trip) \/ Len(Val(trip)) = 0

\* C14: with the override enabled and an empty near-real-time sample there is
\* no chosen row and no pending override, and the override stage completes
\* leaving the rotated and canonicalized buy and sell series and the buy
\* diagnostics as they were (no "current" tag).
C14_EmptySampleMeansNoOverride ==
    [][(pc = "canonical" /\ args.use_current /\ SampleIsEmpty) =>
          /\ IsNone(chosen)
          /\ IsNone(pending_override)
          /\ pc' = "overridden"
          /\ buy_ranges' = buy_ranges
          /\ sell_ranges' = sell_ranges
          /\ ZERO_EVENTS_BUY' = ZERO_EVENTS_BUY
          /\ \A k \in 1..Len(ZERO_EVENTS_BUY') : ZERO_EVENTS_BUY'[k][1] # "current"]_vars

\* a run with the override enabled and no sample went through the override
\* stage over a forecast that carries prices, and reached the submission
C14_Witness ==
    /\ pc = "returned"
    /\ args.use_current
    /\ SampleIsEmpty
    /\ rows # <<>>
    /\ posted

\* the value the row indexed at the anchor of slot i gives for key, None when
\* the slot has no row or the row no value
SlotValue(by_key, i, key) ==
    LET row == DictGet(by_key, IF args.align = "start" THEN slots[i][1]
                                ELSE slots[i][2])
    IN  IF IsNone(row) THEN None ELSE get_value(Val(row), key)

\* the slots whose row has a value for key
SlotsWithValue(by_key, key) ==
    {j \in 1..Len(slots) : ~IsNone(SlotValue(by_key, j, key))}

\* entry i of series is the rounded value of the latest slot of valued at or
\* before i, and the rounded seed (0.0 without one) when there is none
CarriedFrom(series, by_key, key, seed, valued) ==
    \A i \in 1..Len(slots) :
        LET before == {j \in valued : j <= i}
        IN  series[i][2] =
                IF before = {}
                THEN Round2(IF IsNone(seed) THEN 0 ELSE Val(seed))
                ELSE Round2(Val(SlotValue(by_key, SetMax(before), key)))

CarriesForward(series, by_key, key, seed) ==
    /\ Len(series) = Len(slots)
    /\ CarriedFrom(series, by_key, key, seed, SlotsWithValue(by_key, key))

\* C15: in the series build_series_for_window returns, the value of every slot
\* i is the rounded value of the row of the latest slot j <= i whose row has a
\* value for the key, or the seed (0.0 if absent) when there is no such slot;
\* for the buy and for the sell series.
C15_SeriesCarryForward ==
    pc = "built" =>
        /\ CarriesForward(buy_ranges, IndexFor(rows, step_min, args.align),
                          buy_key, buy_baseline)
        /\ CarriesForward(sell_ranges, IndexFor(rows, step_min, args.align),
                          sell_key, sell_baseline)

\* the first slot took 21.50 from its row over a seed of 20.00 and the slots
\* after it, which have no row, repeat 21.50 to the end of the window
C15_Witness ==
    /\ pc = "built"
    /\ buy_baseline = Some(2000)
    /\ IsNone(args.advanced_price)
    /\ SlotsWithValue(IndexFor(rows, step_min, args.align), buy_key) = {1}
    /\ buy_ranges[1][2] = 2150
    /\ buy_ranges[2][2] = 2150
    /\ buy_ranges[Len(buy_ranges)][2] = 2150

\* C16: build_window returns exactly 1440/step slots; the first starts at the
\* wall-clock instant floored to the step, every slot lasts step minutes and
\* ends where the next starts, the last ends 24 hours after the first starts,
\* and the generating loop stopped on its own condition (before MaxLoop).
C16_WindowIsContiguousDay ==
    pc = "clock" =>
        /\ Len(slots) * step_min = TotalMinutes
        /\ Len(slots) < MaxLoop
        /\ slots[1][1] + TzOffset = (now + TzOffset) - ((now + TzOffset) % step_min)
        /\ \A i \in 1..Len(slots) : slots[i][2] = slots[i][1] + step_min
        /\ \A i \in 1..(Len(slots) - 1) : slots[i][2] = slots[i + 1][1]
        /\ slots[Len(slots)][2] = slots[1][1] + TotalMinutes

\* at 10:07 a 5-minute window of 288 slots was built, starting at 10:05
C16_Witness ==
    /\ pc = "clock"
    /\ step_min = 5
    /\ now = LocalInstant(1, 10, 7)
    /\ Len(slots) = 288
    /\ slots[1][1] = now - 2

\* the value for key of the row with the greatest anchor strictly before the
\* instant target, None when no anchor precedes it
ValueOfLatestRowBefore(by_key, key, target) ==
    LET prev_keys == {t \in DOMAIN by_key : t < target}
    IN  IF prev_keys = {} THEN None
        ELSE get_value(by_key[SetMax(prev_keys)], key)

\* C17: the seed main passes to the series builder, for the buy and for the
\* sell stream, is the value of the row with the greatest indexed anchor
\* strictly less than the window start (the current instant floored to the
\* step); a row anchored at or after the window start never supplies it.
C17_SeedPrecedesWindowStart ==
    pc = "built" =>
        /\ buy_baseline =
              ValueOfLatestRowBefore(IndexFor(rows, step_min, args.align),
                                     buy_key, WindowStart)
        /\ sell_baseline =
              ValueOfLatestRowBefore(IndexFor(rows, step_min, args.align),
                                     sell_key, WindowStart)

\* the most recent value for key among the rows anchored strictly before the
\* instant target, None when none of them has one
LatestValueBefore(by_key, key, target) ==
    LET valued == {t \in DOMAIN by_key :
                      t < target /\ ~IsNone(get_value(by_key[t], key))}
    IN  IF valued = {} THEN None
        ELSE get_value(by_key[SetMax(valued)], key)

\* C18: last_known_before returns the value of the most recent row, among
\* those anchored strictly before the target instant, that carries a value
\* for the key; it returns no value only when no earlier row has one. Stated
\* of the two calls main makes, whose target is now_utc.
C18_BaselineIsMostRecentKnownValue ==
    pc = "built" =>
        /\ buy_baseline =
              LatestValueBefore(IndexFor(rows, step_min, args.align), buy_key, now)
        /\ sell_baseline =
              LatestValueBefore(IndexFor(rows, step_min, args.align), sell_key, now)

\* the 1-based index of the canonical bucket the pending override targets
PendingBucket == (LabelStart(Val(pending_override)[1]) \div step_min) + 1

\* the target label starts where a bucket of the canonical series starts
PendingBucketExists ==
    LabelStart(Val(pending_override)[1]) \in
        {k * step_min : k \in 0..(Len(buy_ranges) - 1)}

\* series after a write of the price v (rounded) into bucket t, nothing else
\* changed
WrittenAt(series, t, v) ==
    [i \in 1..Len(series) |->
        IF i = t THEN <<series[i][1], Round2(v)>> ELSE series[i]]

\* C19: in the override stage, the target bucket being in the series, the buy
\* series is patched exactly when the buy value is present and not 0.0,
\* whatever the sell value is; the sell series is patched exactly when the
\* sell value is present, 0.0 included, whatever the buy value is; each patch
\* writes its own rounded value into the target bucket of its own series and
\* nothing else.
C19_BuyAndSellPatchedIndependently ==
    [][(pc = "canonical" /\ ~IsNone(pending_override) /\ PendingBucketExists) =>
          LET chosen_buy  == Val(pending_override)[2]
              chosen_sell == Val(pending_override)[3]
          IN  /\ buy_ranges' =
                    IF IsNone(chosen_buy) \/ Val(chosen_buy) = 0 THEN buy_ranges
                    ELSE WrittenAt(buy_ranges, PendingBucket, Val(chosen_buy))
              /\ sell_ranges' =
                    IF IsNone(chosen_sell) THEN sell_ranges
                    ELSE WrittenAt(sell_ranges, PendingBucket, Val(chosen_sell))]_vars

\* a buy value of 0.0 was skipped, the bucket keeping a forecast of 21.50,
\* while the sell value 7.00 of the same row was written over the forecast
C19_Witness ==
    /\ pc = "overridden"
    /\ ~IsNone(pending_override)
    /\ Val(pending_override)[2] = Some(0)
    /\ Val(pending_override)[3] = Some(700)
    /\ buy_ranges[PendingBucket][2] = 2150
    /\ sell_ranges[PendingBucket][2] = 700
    /\ \E k \in 1..Len(ZERO_EVENTS_BUY) : ZERO_EVENTS_BUY[k][1] = "current"

\* the anchor field of row i for the indexer that ran
AnchorField(i) == IF pc = "by_end" THEN rows[i].endTime ELSE rows[i].startTime

\* the rows whose anchor is present and parses
AnchoredRows ==
    {i \in 1..Len(rows) : AnchorField(i) # Absent /\ AnchorField(i)[1] = "iso"}

\* the anchor instant of row i floored to the step
FlooredAnchor(i) == AnchorField(i)[2] - (AnchorField(i)[2] % step_min)

\* C20: index_prices_by_start_utc and index_prices_by_end_utc return, for every
\* list of rows, a mapping whose keys are the floored anchors of the rows with
\* a present and parsable anchor, each key mapped to the last such row in
\* iteration order; rows with an absent or unparsable anchor contribute
\* nothing and stop nothing.
C20_IndexIsLastWriteWins ==
    pc \in {"by_start", "by_end"} =>
        /\ DOMAIN ret = {FlooredAnchor(i) : i \in AnchoredRows}
        /\ \A t \in DOMAIN ret :
              ret[t] = rows[SetMax({i \in AnchoredRows : FlooredAnchor(i) = t})]

\* at step 30 three rows were indexed by start: 10:00, then 10:02, then one
\* with an unparsable start; the one entry, at 10:00, is the second row
C20_Witness ==
    /\ pc = "by_start"
    /\ step_min = 30
    /\ Len(rows) = 3
    /\ rows[1].startTime = Iso(LocalInstant(1, 10, 0))
    /\ rows[2].startTime = Iso(LocalInstant(1, 10, 2))
    /\ rows[3].startTime = Unparseable
    /\ DOMAIN ret = {LocalInstant(1, 10, 0)}
    /\ ret[LocalInstant(1, 10, 0)] = rows[2]

\* the indices of the entries of the series given whose label starts "00:00-"
FromMidnight ==
    {i \in 1..Len(call.series) :
        /\ Len(call.series[i][1]) >= 6
        /\ SubSeq(call.series[i][1], 1, 6) = <<"0", "0", ":", "0", "0", "-">>}

\* moved is series read cyclically from index k
ReadFrom(series, k, moved) ==
    /\ Len(moved) = Len(series)
    /\ \A i \in 1..Len(series) :
          moved[i] = series[((k - 1 + i - 1) % Len(series)) + 1]

\* C21: rotate_series_to_midnight returns its input read cyclically from the
\* first entry whose label starts with "00:00-" (same length, same entries,
\* same cyclic order, that entry first), and returns the input itself when no
\* label starts so.
C21_RotationIsCircularShiftToFirstMidnight ==
    pc = "rotated" =>
        IF FromMidnight = {}
        THEN ret = call.series
        ELSE LET k == CHOOSE i \in FromMidnight : \A j \in FromMidnight : i <= j
             IN  /\ ret[1] = call.series[k]
                 /\ ReadFrom(call.series, k, ret)

\* a series of four entries with two labels from midnight, at the third and
\* the fourth place, was rotated to start at the third, ahead of an entry
\* whose label ends at midnight
C21_Witness ==
    /\ pc = "rotated"
    /\ Len(call.series) = 4
    /\ FromMidnight = {3, 4}
    /\ EndsWith(call.series[2][1], End0000)
    /\ ret = <<call.series[3], call.series[4], call.series[1], call.series[2]>>

\* the tags recorded so far, as a set
TagsRecorded == {ZERO_EVENTS_BUY[k] : k \in 1..Len(ZERO_EVENTS_BUY)}

\* every 0.0 entry of the buy series has its tag of the kind given
ZerosTagged(kind, tags) ==
    \A i \in 1..Len(buy_ranges) :
        buy_ranges[i][2] = 0 => <<kind, buy_ranges[i][1]>> \in tags

\* C22: after the forecast scan every 0.0 entry of the pre-override buy series
\* has a tag "forecast <label>"; after the postbuild scan every 0.0 entry of
\* the final buy series has a tag "postbuild <label>"; and when the gate is
\* reached with a 0.0 in the final buy series the diagnostics are not empty.
C22_EveryZeroIsTagged ==
    /\ pc = "scanned" => ZerosTagged("forecast", TagsRecorded)
    /\ pc = "postbuild" => ZerosTagged("postbuild", TagsRecorded)
    /\ (pc = "headers" /\ HasZero(buy_ranges)) =>
          \E k \in 1..Len(ZERO_EVENTS_BUY) : ZERO_EVENTS_BUY[k][1] = "postbuild"

\* the gate is reached with a final buy series that holds prices and zeros,
\* and the diagnostics hold forecast and postbuild tags
C22_Witness ==
    /\ pc = "headers"
    /\ HasZero(buy_ranges)
    /\ \E i \in 1..Len(buy_ranges) : buy_ranges[i][2] # 0
    /\ \E k \in 1..Len(ZERO_EVENTS_BUY) : ZERO_EVENTS_BUY[k][1] = "forecast"
    /\ \E k \in 1..Len(ZERO_EVENTS_BUY) : ZERO_EVENTS_BUY[k][1] = "postbuild"

\* no entry of series matches the label by normalized label or by start
NoEntryMatches(series, target_label) ==
    \A i \in 1..Len(series) :
        /\ _norm_label(series[i][1]) # _norm_label(target_label)
        /\ NormStart(series[i][1]) # NormStart(target_label)

\* the index fallback does not apply (the step is not 30) or gives no index
\* inside series
NoFallbackIndex(series, target_label) ==
    step_min = 30 =>
        \/ IsNone(_half_hour_index_from_label(target_label))
        \/ Val(_half_hour_index_from_label(target_label)) \notin 0..(Len(series) - 1)

\* the target of the pending override can be found in neither series by any
\* method
TargetUnresolvable ==
    /\ ~IsNone(pending_override)
    /\ NoEntryMatches(buy_ranges, Val(pending_override)[1])
    /\ NoEntryMatches(sell_ranges, Val(pending_override)[1])
    /\ NoFallbackIndex(buy_ranges, Val(pending_override)[1])
    /\ NoFallbackIndex(sell_ranges, Val(pending_override)[1])

\* C23: when the target label matches no entry by normalized label or start
\* and the index fallback gives nothing, the override stage leaves the buy and
\* the sell series as they were and the run goes on to the postbuild scan.
C23_UnresolvableTargetChangesNothing ==
    [][(pc = "canonical" /\ TargetUnresolvable) =>
          /\ buy_ranges' = buy_ranges
          /\ sell_ranges' = sell_ranges
          /\ pc' = "overridden"]_vars

\* at step 5 a current row starting at 10:07 or 23:44 with prices 23.33 and
\* 4.44 was chosen; its label is in neither series, no entry took its prices
\* and the run reached the gate and returned
C23_Witness ==
    /\ pc = "returned"
    /\ step_min = 5
    /\ TargetUnresolvable
    /\ Val(pending_override)[2] = Some(2333)
    /\ Val(pending_override)[3] = Some(444)
    /\ \A i \in 1..Len(buy_ranges) : buy_ranges[i][2] \notin {2330, 2333}
    /\ \A i \in 1..Len(sell_ranges) : sell_ranges[i][2] \notin {440, 444}

\* after has the length and the labels of before, in the same order, and its
\* prices differ from those of before in at most one entry
OneValueApart(before, after) ==
    /\ Len(after) = Len(before)
    /\ \A i \in 1..Len(before) : after[i][1] = before[i][1]
    /\ Cardinality({i \in 1..Len(before) : after[i][2] # before[i][2]}) <= 1

\* the positions of main from the end of the override stage to the POST
AfterOverridePcs == {"overridden", "postbuild", "headers", "post"}

\* C24: the override stage changes the price of at most one entry of the buy
\* series and of at most one entry of the sell series and nothing else of
\* them (length, labels, order, the other prices); from then on, through the
\* postbuild scan, the payload and the gate, neither series changes.
C24_OverrideFrame ==
    [][/\ pc = "canonical" =>
             /\ OneValueApart(buy_ranges, buy_ranges')
             /\ OneValueApart(sell_ranges, sell_ranges')
       /\ pc \in AfterOverridePcs =>
             /\ buy_ranges' = buy_ranges
             /\ sell_ranges' = sell_ranges]_vars

\* over a forecast of 0.0 throughout, the override wrote one buy and one sell
\* price, and the series reached the POST with just these two entries set
C24_Witness ==
    /\ pc = "post"
    /\ rows = <<>>
    /\ ~IsNone(pending_override)
    /\ Cardinality({i \in 1..Len(buy_ranges) : buy_ranges[i][2] # 0}) = 1
    /\ Cardinality({i \in 1..Len(sell_ranges) : sell_ranges[i][2] # 0}) = 1

\* C25: the override stage never turns a buy price other than 0.0 into 0.0,
\* whatever buy value the chosen row carries.
C25_OverrideIntroducesNoZero ==
    [][pc = "canonical" =>
          \A i \in 1..Len(buy_ranges) :
              buy_ranges[i][2] # 0 => buy_ranges'[i][2] # 0]_vars

\* the start or the end of the chosen row is missing or does not parse
ChosenLacksInterval ==
    /\ ~IsNone(chosen)
    /\ \/ IsNone(parse_iso_utc(Val(chosen).startTime))
       \/ IsNone(parse_iso_utc(Val(chosen).endTime))

\* C26: when the row ranked first has a missing or unparseable start or end,
\* there is no pending override and the override stage leaves the buy and the
\* sell series as they were, whatever the other rows of the sample hold, and
\* the run goes on.
C26_UnparseableChosenRowMeansNoOverride ==
    [][(pc = "canonical" /\ ChosenLacksInterval) =>
          /\ IsNone(pending_override)
          /\ buy_ranges' = buy_ranges
          /\ sell_ranges' = sell_ranges
          /\ pc' = "overridden"]_vars

\* a current row whose end does not parse was chosen ahead of a forecast row
\* with sound times and prices; neither row's prices are in the series and
\* the run posted and returned
C26_Witness ==
    /\ pc = "returned"
    /\ posted
    /\ ChosenLacksInterval
    /\ Val(chosen).type = "CurrentInterval"
    /\ Val(chosen).perKwh = Some(2500)
    /\ \E k \in 1..Len(TripRows) :
          /\ TripRows[k].type = "ForecastInterval"
          /\ ~IsNone(local_start_end(TripRows[k], TzOffset))
          /\ TripRows[k].perKwh = Some(2400)
    /\ \A i \in 1..Len(buy_ranges) : buy_ranges[i][2] \notin {2400, 2500}
    /\ \A i \in 1..Len(sell_ranges) : sell_ranges[i][2] \notin {600, 800}

=============================================================================
